---- MODULE Spec2Model ----
(***************************************************************************)
(* Model of the Mounting_Monitor core:                                     *)
(*   - Detector.process_frame / Detector._handle_detection  (src/src/detector.py) *)
(*   - NotificationScheduler            (src/src/notification_scheduler.py) *)
(*   - EmailNotifier / DiscordNotifier             (src/src/notification.py) *)
(*   - VideoThread.run and Detector.run  (the two detection loops)          *)
(*                                                                         *)
(*   - MainWindow and its scheduler          (src/src/gui/main_window.py)  *)
(*   - get_latest_config            (the configuration document, detector.py) *)
(*                                                                         *)
(* The specifications share the variables below; each one moves the        *)
(* variables of one part of the program and leaves the others alone:       *)
(*   SpecFilter    the class/confidence filter of process_frame            *)
(*   SpecDetector  one Detector handling frames over time (cooldown gate)   *)
(*   SpecQueue     threads calling on_detection and draining the queue      *)
(*   SpecTimer     the background timer loop, start() and stop()            *)
(*   SpecLoop      the reconnecting detection loops (SpecLoopFair: with     *)
(*                 weak fairness of the GUI loop's steps)                   *)
(*   SpecDispatch  the sends of one scheduler and their failures            *)
(*   SpecManual    force_send_summary on a scheduler in any state           *)
(*   SpecTest      send_test_notification                                   *)
(*   SpecWindow    the main window: Start button, settings reload, close    *)
(*   SpecConfig    the configuration document changing on disk              *)
(***************************************************************************)
EXTENDS Integers, Sequences, FiniteSets, TLC

(***************************************************************************)
(* Bounds of the model.                                                    *)
(***************************************************************************)
\* boxes in one frame (SpecFilter)
MaxBoxes == 2
\* class ids are 0..MaxClass
MaxClass == 1
\* confidence levels are ModelConfFloor..MaxConf, thresholds 0..MaxConf
MaxConf == 4
\* qualifying frames in one run of SpecDetector; detections are numbered 1..MaxDetections
MaxDetections == 3
\* calls of on_detection in one run of SpecQueue
MaxCalls == 2
\* calls of _send_daily_summary in one run of SpecQueue or SpecDetector
MaxDrains == 2
\* frames counted per loop in one run of SpecLoop
MaxFrames == 2
\* calls of on_detection, the timer's summary and force_send_summary in one
\* run of SpecDispatch
MaxOps == 2
\* changes of config.yaml on disk in one run of SpecConfig
MaxEdits == 2
\* seconds a read of VideoThread.run can stay without a frame in SpecLoop
MaxStall == 7
\* seconds of one run of SpecDetector, and the longest cooldown
MaxTime == 4
MaxCooldown == 2
\* days of one run of SpecTimer, and the minutes of its day
MaxDay == 2
MinutesPerDay == 4

(***************************************************************************)
(* Program constants.                                                      *)
(***************************************************************************)
\* self.model(frame, verbose=False, conf=0.1): the model returns no box below
\* its own confidence floor, the lowest positive level here
ModelConfFloor == 1
\* a tick is 30 seconds: time_module.sleep(30) is one tick, time_module.sleep(60) two
TicksPerMinute == 2
ActiveSleepTicks == 1
IdleSleepTicks == 2
\* the length of the tuple process_frame returns, and the number of names
\* VideoThread.run unpacks it into
ProcessFrameArity == 4
VideoThreadUnpackArity == 3
\* "if time.time() - last_frame_time > 5.0"
WatchdogSeconds == 5
\* "if current_time - last_config_check > 5.0" of get_latest_config
ConfigCheckSeconds == 5

VARIABLES
    \* ---- process_frame's filter (SpecFilter)
    fr_boxes,        \* result.boxes of the frame: a sequence of [cls, conf]
    fr_target,       \* config["detection"]["target_class"]
    fr_threshold,    \* config["detection"]["confidence_threshold"]
    fr_result,       \* what process_frame returned for fr_boxes, or NoResult
    \* ---- NotificationScheduler: its fields
    immediate_enabled,
    daily_summary_enabled,
    email_enabled,
    discord_enabled,
    email,           \* self.email: "None", or an EmailNotifier "disabled" / "enabled"
    discord,         \* self.discord: "None", or a DiscordNotifier "nourl" / "url"
    today_detections,\* self._today_detections
    lock,            \* self._lock: "free" or the thread holding it
    \* ---- threads inside the scheduler's methods (SpecQueue)
    caller_pc,       \* per calling thread: where it is in on_detection
    caller_det,      \* per calling thread: the detection it passed
    drainer_pc,      \* per draining thread: where it is in _send_daily_summary
    drainer_local,   \* per draining thread: its local "detections"
    \* ---- what left the scheduler, and the history of its calls
    next_id,         \* the number the next on_detection call gets
    returned,        \* the detections whose on_detection call has returned
    imm_sent,        \* per detection: immediate sends started, per channel
    reported,        \* per detection: the summaries that listed it
    cleared,         \* the detections clear_pending dropped
    sum_sent,        \* summary sends started, per channel and kind
    drains,          \* calls of _send_daily_summary so far
    n_calls,         \* on_detection calls that returned since the queue was last emptied
    n_valid,         \* no on_detection call was running when the queue was last emptied
    \* ---- the timer loop (SpecTimer)
    daily_summary_time, \* self.daily_summary_time, in minutes of the day
    now_tick,        \* the wall clock
    running,         \* self._running
    scheduler_thread,\* self._scheduler_thread: 0 for None, or the thread
    loop_pc,         \* per thread: "unborn", "live", "exited"
    last_summary_date, \* per thread: its local last_summary_date, 0 for None
    loop_sleep,      \* per thread: the ticks left of its sleep
    timer_sent,      \* per date: summaries the timer loops sent
    last_sent_minute, \* the minute of the day of the last of them
    ever_stopped,    \* stop() was called
    ctl_pc,          \* the thread calling stop(): "idle", or "joining" in its join
    \* ---- one Detector (SpecDetector)
    det_time,        \* time.time(), in seconds since the Detector was constructed
    last_notification_time, \* self.last_notification_time
    cooldown,        \* config["notification"]["cooldown"]
    has_scheduler,   \* self.scheduler is not None
    det_log,         \* the qualifying frames so far: time and what the handler did
    legacy_sent,     \* calls of the legacy notifier's send
    qual_since,      \* qualifying frames since the last summary
    handled_since,   \* of these, the ones that reached the notification
    \* ---- the detection loops (SpecLoop)
    source_up,       \* the video source answers
    vt_pc,           \* VideoThread.run: where it is
    vt_run_flag,     \* self._run_flag
    vt_cap,          \* its capture: "none", "open", "unopened", "released"
    vt_status,       \* the last status it emitted
    vt_frames,       \* frames it read
    vt_since_frame,  \* seconds since last_frame_time, while it is in the inner loop
    dr_pc,           \* Detector.run: where it is
    dr_cap,          \* the capture cap names
    dr_new,          \* the capture being made for the retry
    dr_frames,       \* frames it processed
    \* ---- the sends of one scheduler (SpecDispatch)
    dp_pc,           \* the thread inside on_detection or _send_daily_summary: where
    dp_op,           \* the calls so far; the last one is the call it is in
    dp_by,           \* per call: who made it
    dp_kind,         \* per call: what it sends
    dp_local,        \* the list _send_daily_summary copied
    dp_task,         \* per call and channel: the send, its thread and its outcome
    \* ---- force_send_summary and send_test_notification (SpecManual)
    man_call,        \* the manual call that is returning, and the state it was made in
    test_results,    \* what send_test_notification was asked, found and returns
    \* ---- the main window (SpecWindow)
    win_open,        \* the window was not closed
    win_started,     \* on_start_clicked was called with a camera selected
    win_thread,      \* self.thread: "none" or "running"
    thread_scheduler,\* what the thread's Detector notifies through
    \* ---- the configuration document (SpecConfig)
    cfg_file,        \* config.yaml on disk: "missing", "unreadable", "malformed", or
                     \* a "mapping" with the sections it parses to
    cfg_file_mtime,  \* its modification time
    config,          \* the module's global config: the sections it has
    config_mtime,    \* the global config_mtime
    since_check,     \* seconds since last_config_check
    frame_outcome    \* how the last process_frame ended: "none", "returned", "KeyError"

filterVars == <<fr_boxes, fr_target, fr_threshold, fr_result>>
flagVars == <<immediate_enabled, daily_summary_enabled>>
channelVars == <<email_enabled, discord_enabled, email, discord>>
queueVars == <<today_detections, lock>>
threadVars == <<caller_pc, caller_det, drainer_pc, drainer_local>>
historyVars == <<next_id, returned, imm_sent, reported, cleared, sum_sent, drains,
                 n_calls, n_valid>>
schedVars == <<flagVars, channelVars, queueVars, threadVars, historyVars>>

timerVars == <<daily_summary_time, now_tick, running, scheduler_thread, loop_pc,
               last_summary_date, loop_sleep, timer_sent, last_sent_minute,
               ever_stopped, ctl_pc>>

detVars == <<det_time, last_notification_time, cooldown, has_scheduler, det_log,
             legacy_sent, qual_since, handled_since>>

vtVars == <<vt_pc, vt_run_flag, vt_cap, vt_status, vt_frames, vt_since_frame>>
drVars == <<dr_pc, dr_cap, dr_new, dr_frames>>
loopVars == <<source_up, vtVars, drVars>>

dispVars == <<dp_pc, dp_op, dp_by, dp_kind, dp_local, dp_task>>

manVars == <<man_call, test_results>>

winVars == <<win_open, win_started, win_thread, thread_scheduler>>

cfgVars == <<cfg_file, cfg_file_mtime, config, config_mtime, since_check,
             frame_outcome>>

vars == <<filterVars, schedVars, timerVars, detVars, loopVars, dispVars, manVars,
          winVars, cfgVars>>

\* what a step of one part of the program leaves alone
OnlyFilter ==
    UNCHANGED <<schedVars, timerVars, detVars, loopVars, dispVars, manVars, winVars,
                cfgVars>>
OnlySched ==
    UNCHANGED <<filterVars, timerVars, detVars, loopVars, dispVars, manVars, winVars,
                cfgVars>>
OnlyTimer ==
    UNCHANGED <<filterVars, detVars, loopVars, dispVars, manVars, winVars,
                cfgVars>>
OnlyDetector ==
    UNCHANGED <<filterVars, timerVars, loopVars, dispVars, manVars, winVars,
                cfgVars>>
OnlyLoop ==
    UNCHANGED <<filterVars, schedVars, timerVars, detVars, dispVars, manVars, winVars,
                cfgVars>>
OnlyDispatch ==
    UNCHANGED <<filterVars, timerVars, detVars, loopVars, manVars, winVars,
                cfgVars>>
OnlyManual ==
    UNCHANGED <<filterVars, detVars, loopVars, dispVars, winVars, cfgVars, lock,
                threadVars,
                scheduler_thread, loop_pc, loop_sleep, timer_sent, last_sent_minute,
                ever_stopped, ctl_pc>>
OnlyWindow ==
    UNCHANGED <<filterVars, detVars, loopVars, dispVars, manVars, cfgVars, lock,
                threadVars,
                scheduler_thread, loop_pc, loop_sleep, timer_sent, last_sent_minute,
                ever_stopped, ctl_pc>>

(***************************************************************************)
(* Detector.process_frame: the filter over result.boxes.                   *)
(***************************************************************************)
Classes == 0..MaxClass
ConfLevels == ModelConfFloor..MaxConf
Thresholds == 0..MaxConf
Box == [cls : Classes, conf : ConfLevels]

\* self.model.names[cls_id]: the model's table of class names
names(cls_id) == <<"name", cls_id>>

\* the locals of process_frame before the loop over the boxes
FilterStart == [detected |-> FALSE, max_conf |-> 0, class_name |-> "Unknown"]

\* "if cls_id == target_class_id and conf > threshold"
Qualifies_GE(box, target_class_id, threshold) ==
    box.cls = target_class_id /\ box.conf >= threshold

Qualifies(box, target_class_id, threshold) ==
    box.cls = target_class_id /\ box.conf > threshold

\* "if conf > max_conf: max_conf = conf; class_name = self.model.names[cls_id]"
TrackMax_Last(st, box) ==
    [detected |-> TRUE, max_conf |-> box.conf, class_name |-> names(box.cls)]

TrackMax(st, box) ==
    IF box.conf > st.max_conf
    THEN [detected |-> TRUE, max_conf |-> box.conf, class_name |-> names(box.cls)]
    ELSE [st EXCEPT !.detected = TRUE]

\* one iteration of "for box in result.boxes"
FilterStep(st, box, target_class_id, threshold) ==
    IF Qualifies(box, target_class_id, threshold) THEN TrackMax(st, box) ELSE st

RECURSIVE FilterLoop(_, _, _, _)
FilterLoop(st, boxes, target_class_id, threshold) ==
    IF boxes = <<>> THEN st
    ELSE FilterLoop(FilterStep(st, Head(boxes), target_class_id, threshold),
                    Tail(boxes), target_class_id, threshold)

\* (detected, max_conf, class_name) as process_frame returns them
process_frame(boxes, target_class_id, threshold) ==
    FilterLoop(FilterStart, boxes, target_class_id, threshold)

NoResult == [detected |-> FALSE, max_conf |-> -1, class_name |-> "none"]

Frames == UNION {[1..n -> Box] : n \in 0..MaxBoxes}

FilterInit ==
    /\ fr_boxes \in Frames
    /\ fr_target \in Classes
    /\ fr_threshold \in Thresholds
    /\ fr_result = NoResult

\* no frame is being filtered
FilterIdle ==
    /\ fr_boxes = <<>>
    /\ fr_target = 1
    /\ fr_threshold = 0
    /\ fr_result = NoResult

\* process_frame is applied to the frame
ApplyFilter ==
    /\ fr_result = NoResult
    /\ fr_result' = process_frame(fr_boxes, fr_target, fr_threshold)
    /\ UNCHANGED <<fr_boxes, fr_target, fr_threshold>>
    /\ OnlyFilter

(***************************************************************************)
(* NotificationScheduler and its two channels.                             *)
(***************************************************************************)
DetIds == 1..MaxDetections
\* threads that call on_detection (detection threads)
Callers == {"det1", "det2"}
\* threads that call _send_daily_summary: the timer loop, and the thread
\* calling force_send_summary
Drainers == {"timer", "gui"}

EmailObjects == {"None", "disabled", "enabled"}
DiscordObjects == {"None", "nourl", "url"}

\* EmailNotifier.send starts its sending thread unless the notifier is
\* disabled or the list is empty
EmailSendStarts(em, detections) == em = "enabled" /\ detections # <<>>

\* DiscordNotifier.send starts its sending thread unless it has no webhook URL
DiscordSendStarts(dc) == dc = "url"

\* "with self._lock": a thread enters when no thread holds the lock
LockFree_Unlocked == TRUE

LockFree == lock = "free"

\* on_detection, "if self.daily_summary_enabled: self._queue_detection(detection)"
QueuesDetection_ImmediateOff(daily, immediate) == daily /\ ~immediate

QueuesDetection(daily, immediate) == daily

\* on_detection, "if self.immediate_enabled: self._send_immediate(detection)"
SendsImmediate_Elif(daily, immediate) == immediate /\ ~daily

SendsImmediate(daily, immediate) == immediate

\* _send_immediate: one email.send and one discord.send, each behind its flag
ImmediateSends(d) ==
    [email   |-> IF email_enabled /\ email # "None" /\ EmailSendStarts(email, <<d>>)
                 THEN 1 ELSE 0,
     discord |-> IF discord_enabled /\ discord # "None" /\ DiscordSendStarts(discord)
                 THEN 1 ELSE 0]

send_immediate(d) ==
    imm_sent' = [imm_sent EXCEPT ![d] =
                    [email   |-> @.email + ImmediateSends(d).email,
                     discord |-> @.discord + ImmediateSends(d).discord]]

\* _send_daily_summary after the drain: what it sends for the list it copied.
\* With an empty list the email goes through _send_no_detection_email, which
\* opens the SMTP connection itself whenever self.email is set.
SummarySends_SkipEmpty(detections) ==
    LET n == Len(detections)
        em == email_enabled /\ email # "None"
        dc == discord_enabled /\ discord # "None"
    IN [email_summary   |-> IF em /\ EmailSendStarts(email, detections) THEN 1 ELSE 0,
        email_nodet     |-> 0,
        discord_summary |-> IF dc /\ n > 0 /\ DiscordSendStarts(discord) THEN 1 ELSE 0,
        discord_nodet   |-> 0]

SummarySends(detections) ==
    LET n == Len(detections)
        em == email_enabled /\ email # "None"
        dc == discord_enabled /\ discord # "None"
    IN [email_summary   |-> IF em /\ n > 0 /\ EmailSendStarts(email, detections)
                            THEN 1 ELSE 0,
        email_nodet     |-> IF em /\ n = 0 THEN 1 ELSE 0,
        discord_summary |-> IF dc /\ n > 0 /\ DiscordSendStarts(discord) THEN 1 ELSE 0,
        discord_nodet   |-> IF dc /\ n = 0 /\ DiscordSendStarts(discord) THEN 1 ELSE 0]

send_summary(detections) ==
    /\ sum_sent' = [k \in DOMAIN sum_sent |-> sum_sent[k] + SummarySends(detections)[k]]
    /\ reported' = [d \in DetIds |->
                      reported[d] + Cardinality({i \in 1..Len(detections) :
                                                    detections[i] = d})]

\* no thread is inside on_detection
NoCallRunning == \A c \in Callers : caller_pc[c] = "idle"

\* One channel of a scheduler: its flag and its notifier object. Every way
\* through "if self.email_enabled and self.email" and the notifier's own test
\* is there: flag off, no object, an object that refuses, an object that sends.
EmailConfigs == {<<FALSE, "enabled">>, <<TRUE, "None">>,
                 <<TRUE, "disabled">>, <<TRUE, "enabled">>}
DiscordConfigs == {<<FALSE, "url">>, <<TRUE, "None">>,
                   <<TRUE, "nourl">>, <<TRUE, "url">>}

ChannelInit ==
    /\ \E ec \in EmailConfigs : email_enabled = ec[1] /\ email = ec[2]
    /\ \E dc \in DiscordConfigs : discord_enabled = dc[1] /\ discord = dc[2]

\* NotificationScheduler.__init__, with no thread inside it yet
SchedFresh ==
    /\ today_detections = <<>>
    /\ lock = "free"
    /\ caller_pc = [c \in Callers |-> "idle"]
    /\ caller_det = [c \in Callers |-> 0]
    /\ drainer_pc = [t \in Drainers |-> "idle"]
    /\ drainer_local = [t \in Drainers |-> <<>>]
    /\ next_id = 1
    /\ returned = {}
    /\ imm_sent = [d \in DetIds |-> [email |-> 0, discord |-> 0]]
    /\ reported = [d \in DetIds |-> 0]
    /\ cleared = {}
    /\ sum_sent = [email_summary |-> 0, email_nodet |-> 0,
                   discord_summary |-> 0, discord_nodet |-> 0]
    /\ drains = 0
    /\ n_calls = 0
    /\ n_valid = TRUE

\* the defaults of __init__
SchedIdle ==
    /\ immediate_enabled = TRUE
    /\ daily_summary_enabled = FALSE
    /\ email_enabled = TRUE
    /\ discord_enabled = FALSE
    /\ email = "None"
    /\ discord = "None"
    /\ SchedFresh

(***************************************************************************)
(* SpecQueue: on_detection and _send_daily_summary step by step, run by    *)
(* several threads.                                                        *)
(***************************************************************************)
\* on_detection is entered: the call is logged and the daily flag is read
OD_Enter(c) ==
    /\ caller_pc[c] = "idle"
    /\ next_id <= MaxCalls
    /\ caller_det' = [caller_det EXCEPT ![c] = next_id]
    /\ next_id' = next_id + 1
    /\ caller_pc' = [caller_pc EXCEPT ![c] =
                       IF QueuesDetection(daily_summary_enabled, immediate_enabled)
                       THEN "queue" ELSE "immediate"]
    /\ UNCHANGED <<flagVars, channelVars, queueVars, drainer_pc, drainer_local,
                   returned, imm_sent, reported, cleared, sum_sent, drains, n_calls,
                   n_valid>>
    /\ OnlySched

\* _queue_detection: the append, under the lock
OD_Queue(c) ==
    /\ caller_pc[c] = "queue"
    /\ LockFree
    /\ today_detections' = Append(today_detections, caller_det[c])
    /\ caller_pc' = [caller_pc EXCEPT ![c] = "immediate"]
    /\ UNCHANGED <<flagVars, channelVars, lock, caller_det, drainer_pc, drainer_local,
                   historyVars>>
    /\ OnlySched

\* the immediate flag is read, _send_immediate runs if it is set, and
\* on_detection returns
OD_Immediate(c) ==
    LET d == caller_det[c] IN
    /\ caller_pc[c] = "immediate"
    /\ IF SendsImmediate(daily_summary_enabled, immediate_enabled)
       THEN send_immediate(d)
       ELSE UNCHANGED imm_sent
    /\ returned' = returned \cup {d}
    /\ n_calls' = n_calls + 1
    /\ caller_pc' = [caller_pc EXCEPT ![c] = "idle"]
    /\ UNCHANGED <<flagVars, channelVars, queueVars, caller_det, drainer_pc,
                   drainer_local, next_id, reported, cleared, sum_sent, drains, n_valid>>
    /\ OnlySched

\* _send_daily_summary takes the lock and copies the list
SDS_Copy(t) ==
    /\ drainer_pc[t] = "idle"
    /\ drains < MaxDrains
    /\ LockFree
    /\ lock' = t
    /\ drainer_local' = [drainer_local EXCEPT ![t] = today_detections]
    /\ drainer_pc' = [drainer_pc EXCEPT ![t] = "copied"]
    /\ drains' = drains + 1
    /\ UNCHANGED <<flagVars, channelVars, today_detections, caller_pc, caller_det,
                   next_id, returned, imm_sent, reported, cleared, sum_sent,
                   n_calls, n_valid>>
    /\ OnlySched

\* it clears the list and leaves the lock
SDS_Clear(t) ==
    /\ drainer_pc[t] = "copied"
    /\ today_detections' = <<>>
    /\ lock' = "free"
    /\ drainer_pc' = [drainer_pc EXCEPT ![t] = "dispatch"]
    /\ n_calls' = 0
    /\ n_valid' = NoCallRunning
    /\ UNCHANGED <<flagVars, channelVars, caller_pc, caller_det, drainer_local,
                   next_id, returned, imm_sent, reported, cleared, sum_sent, drains>>
    /\ OnlySched

\* it sends what it copied on the enabled channels
SDS_Dispatch(t) ==
    /\ drainer_pc[t] = "dispatch"
    /\ send_summary(drainer_local[t])
    /\ drainer_local' = [drainer_local EXCEPT ![t] = <<>>]
    /\ drainer_pc' = [drainer_pc EXCEPT ![t] = "idle"]
    /\ UNCHANGED <<flagVars, channelVars, queueVars, caller_pc, caller_det,
                   next_id, returned, imm_sent, cleared, drains, n_calls, n_valid>>
    /\ OnlySched

\* clear_pending
ClearPending ==
    /\ LockFree
    /\ today_detections # <<>>
    /\ cleared' = cleared \cup {today_detections[i] : i \in 1..Len(today_detections)}
    /\ today_detections' = <<>>
    /\ n_calls' = 0
    /\ n_valid' = NoCallRunning
    /\ UNCHANGED <<flagVars, channelVars, lock, threadVars, next_id, returned, imm_sent,
                   reported, sum_sent, drains>>
    /\ OnlySched

\* get_pending_count, which a thread reads under the lock
get_pending_count == Len(today_detections)

QueueInit ==
    /\ immediate_enabled \in BOOLEAN
    /\ daily_summary_enabled \in BOOLEAN
    /\ ChannelInit
    /\ SchedFresh

(***************************************************************************)
(* The background timer loop, start() and stop().  Time moves in ticks of  *)
(* 30 seconds, the loop's sleep; the day is MinutesPerDay minutes long.    *)
(***************************************************************************)
TicksPerDay == MinutesPerDay * TicksPerMinute
LastTick == MaxDay * TicksPerDay - 1
\* the threads start() can create in one run, in the order of their creation
LoopIds == {1, 2}
Dates == 1..MaxDay
MinutesOfDay == 0..(MinutesPerDay - 1)

\* now.strftime("%Y-%m-%d") and now.time() of datetime.now()
current_date(tick) == (tick \div TicksPerDay) + 1
current_minutes(tick) == (tick % TicksPerDay) \div TicksPerMinute

Abs(x) == IF x < 0 THEN -x ELSE x

\* _is_target_time: minutes of the day, at most one apart
is_target_time_Exact(current, target) == current = target

is_target_time(current, target) == Abs(current - target) <= 1

\* "if self._is_target_time(...) and last_summary_date != current_date"
SummaryDue(tick, target, last_date) ==
    /\ is_target_time(current_minutes(tick), target)
    /\ last_date # current_date(tick)

\* on_detection as one step of its caller: the append, then _send_immediate
on_detection(d) ==
    /\ today_detections' =
          IF QueuesDetection(daily_summary_enabled, immediate_enabled)
          THEN Append(today_detections, d) ELSE today_detections
    /\ IF SendsImmediate(daily_summary_enabled, immediate_enabled)
       THEN send_immediate(d)
       ELSE UNCHANGED imm_sent
    /\ returned' = returned \cup {d}
    /\ n_calls' = n_calls + 1
    /\ UNCHANGED <<lock, n_valid>>

\* _send_daily_summary as one step of its caller: copy, clear, send
send_daily_summary ==
    /\ today_detections' = <<>>
    /\ send_summary(today_detections)
    /\ drains' = drains + 1
    /\ n_calls' = 0
    /\ n_valid' = TRUE
    /\ UNCHANGED lock

\* the scheduler is constructed and not started
TimerFresh ==
    /\ running = FALSE
    /\ scheduler_thread = 0
    /\ loop_pc = [i \in LoopIds |-> "unborn"]
    /\ last_summary_date = [i \in LoopIds |-> 0]
    /\ loop_sleep = [i \in LoopIds |-> 0]
    /\ timer_sent = [dt \in Dates |-> 0]
    /\ last_sent_minute = -1
    /\ ever_stopped = FALSE
    /\ ctl_pc = "idle"

TimerIdle ==
    /\ daily_summary_time = 0
    /\ now_tick = 0
    /\ TimerFresh

\* create_scheduler_from_env with both channels configured, before start()
TimerInit ==
    /\ immediate_enabled = TRUE
    /\ daily_summary_enabled \in BOOLEAN
    /\ email_enabled = TRUE
    /\ email = "enabled"
    /\ discord_enabled = TRUE
    /\ discord = "url"
    /\ SchedFresh
    /\ daily_summary_time \in MinutesOfDay
    /\ now_tick = 0
    /\ TimerFresh

\* a thread of _scheduler_loop that has not returned
Alive(i) == loop_pc[i] \in {"live", "body"}

\* 30 seconds pass, for the sleeping threads too.  A pass of the loop from
\* its test to its sleep and the join of stop() take far less: no thread is
\* inside one meanwhile.
Tick ==
    /\ now_tick < LastTick
    /\ ctl_pc = "idle"
    /\ \A i \in LoopIds : loop_pc[i] # "body"
    /\ now_tick' = now_tick + 1
    /\ loop_sleep' = [i \in LoopIds |-> IF loop_sleep[i] > 0 THEN loop_sleep[i] - 1 ELSE 0]
    /\ UNCHANGED <<schedVars, daily_summary_time, running, scheduler_thread, loop_pc,
                   last_summary_date, timer_sent, last_sent_minute, ever_stopped, ctl_pc>>
    /\ OnlyTimer

\* start(): nothing when already running, else one new thread
Start ==
    /\ ctl_pc = "idle"
    /\ IF running
       THEN UNCHANGED <<running, scheduler_thread, loop_pc>>
       ELSE /\ running' = TRUE
            /\ \E i \in LoopIds :
                  /\ loop_pc[i] = "unborn"
                  /\ \A j \in LoopIds : j < i => loop_pc[j] # "unborn"
                  /\ loop_pc' = [loop_pc EXCEPT ![i] = "live"]
                  /\ scheduler_thread' = i
    /\ UNCHANGED <<schedVars, daily_summary_time, now_tick, last_summary_date,
                   loop_sleep, timer_sent, last_sent_minute, ever_stopped, ctl_pc>>
    /\ OnlyTimer

\* stop(): the flag is cleared, then "if self._scheduler_thread:
\* self._scheduler_thread.join(timeout=2)", which returns at once for a
\* thread that has ended
Stop ==
    /\ ctl_pc = "idle"
    /\ running' = FALSE
    /\ ever_stopped' = TRUE
    /\ ctl_pc' = IF scheduler_thread # 0 /\ Alive(scheduler_thread)
                 THEN "joining" ELSE "idle"
    /\ UNCHANGED <<schedVars, daily_summary_time, now_tick, scheduler_thread, loop_pc,
                   last_summary_date, loop_sleep, timer_sent, last_sent_minute>>
    /\ OnlyTimer

\* join(timeout=2) returns: the thread has ended, or the two seconds are
\* over, in which every thread that was inside a pass has reached its sleep
JoinReturns(thread) ==
    \/ loop_pc[thread] = "exited"
    \/ \A i \in LoopIds : loop_pc[i] # "body"

StopReturn ==
    /\ ctl_pc = "joining"
    /\ JoinReturns(scheduler_thread)
    /\ ctl_pc' = "idle"
    /\ UNCHANGED <<schedVars, daily_summary_time, now_tick, running, scheduler_thread,
                   loop_pc, last_summary_date, loop_sleep, timer_sent, last_sent_minute,
                   ever_stopped>>
    /\ OnlyTimer

\* set_daily_summary_enabled, from the thread that calls start() and stop()
SetDailySummaryEnabled(enabled) ==
    /\ ctl_pc = "idle"
    /\ daily_summary_enabled # enabled
    /\ daily_summary_enabled' = enabled
    /\ UNCHANGED <<immediate_enabled, channelVars, queueVars, threadVars, historyVars,
                   timerVars>>
    /\ OnlyTimer

\* set_daily_summary_time
SetDailySummaryTime(minute) ==
    /\ ctl_pc = "idle"
    /\ daily_summary_time # minute
    /\ daily_summary_time' = minute
    /\ UNCHANGED <<schedVars, now_tick, running, scheduler_thread, loop_pc,
                   last_summary_date, loop_sleep, timer_sent, last_sent_minute,
                   ever_stopped, ctl_pc>>
    /\ OnlyTimer

\* a thread is at "while self._running" when its sleep is over, at once or
\* any time later
AtLoopTest(i) == loop_pc[i] = "live" /\ loop_sleep[i] = 0

\* the test of "while self._running" fails: the thread returns, and its
\* local last_summary_date is gone
LoopExit(i) ==
    /\ AtLoopTest(i)
    /\ ~running
    /\ loop_pc' = [loop_pc EXCEPT ![i] = "exited"]
    /\ last_summary_date' = [last_summary_date EXCEPT ![i] = 0]
    /\ UNCHANGED <<schedVars, daily_summary_time, now_tick, running, scheduler_thread,
                   loop_sleep, timer_sent, last_sent_minute, ever_stopped, ctl_pc>>
    /\ OnlyTimer

\* the test holds: the thread is inside a pass
LoopEnter(i) ==
    /\ AtLoopTest(i)
    /\ running
    /\ loop_pc' = [loop_pc EXCEPT ![i] = "body"]
    /\ UNCHANGED <<schedVars, daily_summary_time, now_tick, running, scheduler_thread,
                   last_summary_date, loop_sleep, timer_sent, last_sent_minute,
                   ever_stopped, ctl_pc>>
    /\ OnlyTimer

\* the pass with daily mode off: time.sleep(60), continue
LoopIdlePass(i) ==
    /\ loop_pc[i] = "body"
    /\ ~daily_summary_enabled
    /\ loop_pc' = [loop_pc EXCEPT ![i] = "live"]
    /\ loop_sleep' = [loop_sleep EXCEPT ![i] = IdleSleepTicks]
    /\ UNCHANGED <<schedVars, daily_summary_time, now_tick, running, scheduler_thread,
                   last_summary_date, timer_sent, last_sent_minute, ever_stopped, ctl_pc>>
    /\ OnlyTimer

\* the pass with daily mode on: the summary when it is due, time.sleep(30)
LoopPass(i) ==
    /\ loop_pc[i] = "body"
    /\ daily_summary_enabled
    /\ IF SummaryDue(now_tick, daily_summary_time, last_summary_date[i])
       THEN /\ send_daily_summary
            /\ last_summary_date' =
                  [last_summary_date EXCEPT ![i] = current_date(now_tick)]
            /\ timer_sent' = [timer_sent EXCEPT ![current_date(now_tick)] = @ + 1]
            /\ last_sent_minute' = current_minutes(now_tick)
            /\ UNCHANGED <<flagVars, channelVars, threadVars, next_id, returned,
                           imm_sent, cleared>>
       ELSE UNCHANGED <<schedVars, last_summary_date, timer_sent, last_sent_minute>>
    /\ loop_pc' = [loop_pc EXCEPT ![i] = "live"]
    /\ loop_sleep' = [loop_sleep EXCEPT ![i] = ActiveSleepTicks]
    /\ UNCHANGED <<daily_summary_time, now_tick, running, scheduler_thread,
                   ever_stopped, ctl_pc>>
    /\ OnlyTimer

(***************************************************************************)
(* SpecDetector: one Detector handling frames over time.  process_frame    *)
(* filters the frame and, on a match, calls _handle_detection.             *)
(***************************************************************************)
\* the configured cooldown in seconds; 0 stands for a cooldown shorter than a
\* second
Cooldowns == 0..MaxCooldown

\* the frames of this specification carry at most one box
DetFrames == {<<>>} \cup {<<b>> : b \in Box}

\* "if elapsed < cooldown: return"
InCooldown_Inclusive(current_time, last_time, cd) == current_time - last_time <= cd

InCooldown(current_time, last_time, cd) == current_time - last_time < cd

\* "self.last_notification_time: float = time.time()" in __init__
InitialLastNotification_LongAgo(now) == now - (MaxCooldown + 1)

InitialLastNotification(now) == now

\* "detect_%Y-%m-%d_%H-%M-%S.jpg": the name of the evidence file written at
\* current_time is the second
EvidenceName(current_time) == current_time

\* the Detector is constructed at time 0, with or without a scheduler
DetectorFresh ==
    /\ det_time = 0
    /\ last_notification_time = InitialLastNotification(0)
    /\ det_log = <<>>
    /\ legacy_sent = 0
    /\ qual_since = 0
    /\ handled_since = 0

DetectorIdle ==
    /\ cooldown = 1
    /\ has_scheduler = FALSE
    /\ DetectorFresh

DetectorInit ==
    /\ cooldown \in Cooldowns
    /\ has_scheduler \in BOOLEAN
    /\ DetectorFresh

\* the configuration in force: the target class, and a threshold that the
\* weakest boxes of the model do not pass
DetFilterInit ==
    /\ fr_boxes = <<>>
    /\ fr_target = 1
    /\ fr_threshold = ModelConfFloor
    /\ fr_result = NoResult

\* the scheduler the Detector may hold: both channels configured
DetSchedInit ==
    /\ immediate_enabled \in BOOLEAN
    /\ daily_summary_enabled \in BOOLEAN
    /\ email_enabled = TRUE
    /\ email = "enabled"
    /\ discord_enabled = TRUE
    /\ discord = "url"
    /\ SchedFresh

\* a second passes
DetTick ==
    /\ det_time < MaxTime
    /\ det_time' = det_time + 1
    /\ UNCHANGED <<schedVars, last_notification_time, cooldown, has_scheduler, det_log,
                   legacy_sent, qual_since, handled_since>>
    /\ OnlyDetector

\* the notification call of _handle_detection is reached past the cooldown
\* return, when log_detection has not raised
ReachesNotification_Ungated(in_cooldown, db_ok) == db_ok

ReachesNotification(in_cooldown, db_ok) == ~in_cooldown /\ db_ok

\* _handle_detection, for the detection numbered d; db_ok: log_detection
\* returns, else it raises and the rest of the handler is skipped
handle_detection(d, db_ok) ==
    LET in_cooldown == InCooldown(det_time, last_notification_time, cooldown)
        completes == ~in_cooldown /\ db_ok
    IN /\ det_log' = Append(det_log,
              [time |-> det_time,
               outcome |-> IF in_cooldown THEN "cooldown"
                           ELSE IF db_ok THEN "handled" ELSE "db_error"])
       /\ IF ReachesNotification(in_cooldown, db_ok)
          THEN IF has_scheduler
               THEN /\ on_detection(d)
                    /\ next_id' = d + 1
                    /\ UNCHANGED <<flagVars, channelVars, threadVars, reported, cleared,
                                   sum_sent, drains, legacy_sent>>
               ELSE /\ legacy_sent' = legacy_sent + 1
                    /\ UNCHANGED schedVars
          ELSE UNCHANGED <<schedVars, legacy_sent>>
       /\ handled_since' = IF completes THEN handled_since + 1 ELSE handled_since
       /\ last_notification_time' =
             IF completes THEN det_time ELSE last_notification_time

\* process_frame on one frame, with the target class and threshold in force:
\* the handler runs on a match, and nothing happens otherwise
ProcessFrame(boxes, db_ok) ==
    /\ Len(det_log) < MaxDetections
    /\ IF process_frame(boxes, fr_target, fr_threshold).detected
       THEN /\ handle_detection(next_id, db_ok)
            /\ qual_since' = qual_since + 1
       ELSE UNCHANGED <<schedVars, last_notification_time, det_log, legacy_sent,
                        qual_since, handled_since>>
    /\ UNCHANGED <<det_time, cooldown, has_scheduler>>
    /\ OnlyDetector

\* force_send_summary: the summary goes out now
ForceSendSummary ==
    /\ has_scheduler
    /\ drains < MaxDrains
    /\ send_daily_summary
    /\ qual_since' = 0
    /\ handled_since' = 0
    /\ UNCHANGED <<flagVars, channelVars, threadVars, next_id, returned, imm_sent,
                   cleared>>
    /\ UNCHANGED <<det_time, last_notification_time, cooldown, has_scheduler, det_log,
                   legacy_sent>>
    /\ OnlyDetector

(***************************************************************************)
(* SpecLoop: the two detection loops, VideoThread.run of the GUI and       *)
(* Detector.run of the command line, each reading the same kind of source. *)
(***************************************************************************)
\* cv2.VideoCapture(source): the capture is open when the source answers
Opened == IF source_up THEN "open" ELSE "unopened"

\* cap.read(): a frame, or none; none when the source is down
ReadResults == IF source_up THEN {TRUE, FALSE} ELSE {FALSE}

\* "annotated_frame, detected, conf = self.detector.process_frame(frame)":
\* unpacking raises ValueError when the tuple has another length
UnpackRaises == ProcessFrameArity # VideoThreadUnpackArity

LoopFresh ==
    /\ source_up \in BOOLEAN
    /\ vt_pc = "connecting"
    /\ vt_run_flag = TRUE
    /\ vt_cap = "none"
    /\ vt_status = "none"
    /\ vt_frames = 0
    /\ vt_since_frame = 0
    /\ dr_pc = "start"
    /\ dr_cap = "none"
    /\ dr_new = "none"
    /\ dr_frames = 0

LoopIdle ==
    /\ source_up = TRUE
    /\ vt_pc = "connecting"
    /\ vt_run_flag = TRUE
    /\ vt_cap = "none"
    /\ vt_status = "none"
    /\ vt_frames = 0
    /\ vt_since_frame = 0
    /\ dr_pc = "start"
    /\ dr_cap = "none"
    /\ dr_new = "none"
    /\ dr_frames = 0

\* the camera or the network comes and goes
SourceChange ==
    /\ source_up' = ~source_up
    /\ UNCHANGED <<vtVars, drVars>>
    /\ OnlyLoop

\* ---- VideoThread.run
\* the test of the outer "while self._run_flag" fails: "Stopped"
VT_Stopped ==
    /\ vt_pc = "connecting"
    /\ ~vt_run_flag
    /\ vt_status' = "Stopped"
    /\ vt_pc' = "done"
    /\ UNCHANGED <<source_up, vt_run_flag, vt_cap, vt_frames, vt_since_frame, drVars>>
    /\ OnlyLoop

\* the test of the outer "while self._run_flag" holds: "Connecting to
\* source...", and the loop goes on to open the source
VT_Enter ==
    /\ vt_pc = "connecting"
    /\ vt_run_flag
    /\ vt_status' = "Connecting to source..."
    /\ vt_pc' = "opening"
    /\ UNCHANGED <<source_up, vt_run_flag, vt_cap, vt_frames, vt_since_frame, drVars>>
    /\ OnlyLoop

\* cv2.VideoCapture(source) and its outcome; last_frame_time starts at the
\* time of a successful open
VT_Connect ==
    /\ vt_pc = "opening"
    /\ vt_cap' = Opened
    /\ IF source_up
       THEN vt_status' = "Monitoring Active" /\ vt_pc' = "active"
       ELSE vt_status' = "Connection Failed" /\ vt_pc' = "connect_wait"
    /\ vt_since_frame' = 0
    /\ UNCHANGED <<source_up, vt_run_flag, vt_frames, drVars>>
    /\ OnlyLoop

\* time.sleep(3) after a failed open, then "continue"
VT_ConnectRetry ==
    /\ vt_pc = "connect_wait"
    /\ vt_pc' = "connecting"
    /\ UNCHANGED <<source_up, vt_run_flag, vt_cap, vt_status, vt_frames,
                   vt_since_frame, drVars>>
    /\ OnlyLoop

\* a second passes while VideoThread.run is inside cap.read()
VT_ReadWaits ==
    /\ vt_pc = "active"
    /\ vt_since_frame < MaxStall
    /\ vt_since_frame' = vt_since_frame + 1
    /\ UNCHANGED <<source_up, vt_pc, vt_run_flag, vt_cap, vt_status, vt_frames, drVars>>
    /\ OnlyLoop

\* one pass of the inner "while self._run_flag": cap.read() returns ret; a
\* frame is processed, which takes proc seconds, and the watchdog test
\* follows.  What process_frame does with the frame is in SpecFilter and
\* SpecDetector, here the frame is counted.
VT_Read(ret, proc) ==
    /\ vt_pc = "active"
    /\ IF ~vt_run_flag
       THEN /\ vt_pc' = "release"
            /\ UNCHANGED <<vt_status, vt_frames>>
       ELSE /\ ret \in ReadResults
            /\ IF ret
               THEN /\ vt_frames' = IF vt_frames < MaxFrames THEN vt_frames + 1 ELSE vt_frames
                    /\ IF UnpackRaises
                       THEN vt_pc' = "release" /\ UNCHANGED vt_status
                       ELSE IF proc > WatchdogSeconds
                       THEN vt_pc' = "release" /\ vt_status' = "Video freeze detected"
                       ELSE vt_pc' = "active" /\ UNCHANGED vt_status
               ELSE /\ vt_status' = "Stream Lost"
                    /\ vt_pc' = "release"
                    /\ UNCHANGED vt_frames
    /\ vt_since_frame' = 0
    /\ UNCHANGED <<source_up, vt_run_flag, vt_cap, drVars>>
    /\ OnlyLoop

\* cap.release() after the inner loop, then "Reconnecting..." and
\* time.sleep(2) unless a stop is pending
VT_Release_OnlyToReconnect ==
    /\ vt_pc = "release"
    /\ vt_cap' = IF vt_run_flag THEN "released" ELSE vt_cap
    /\ IF vt_run_flag
       THEN vt_status' = "Reconnecting..." /\ vt_pc' = "reconnect_wait"
       ELSE vt_pc' = "connecting" /\ UNCHANGED vt_status
    /\ UNCHANGED <<source_up, vt_run_flag, vt_frames, vt_since_frame, drVars>>
    /\ OnlyLoop

VT_Release ==
    /\ vt_pc = "release"
    /\ vt_cap' = "released"
    /\ IF vt_run_flag
       THEN vt_status' = "Reconnecting..." /\ vt_pc' = "reconnect_wait"
       ELSE vt_pc' = "connecting" /\ UNCHANGED vt_status
    /\ UNCHANGED <<source_up, vt_run_flag, vt_frames, vt_since_frame, drVars>>
    /\ OnlyLoop

\* the sleep of two seconds is over
VT_Backoff ==
    /\ vt_pc = "reconnect_wait"
    /\ vt_pc' = "connecting"
    /\ UNCHANGED <<source_up, vt_run_flag, vt_cap, vt_status, vt_frames,
                   vt_since_frame, drVars>>
    /\ OnlyLoop

\* stop(), from the GUI thread
VT_Stop ==
    /\ vt_run_flag
    /\ vt_run_flag' = FALSE
    /\ UNCHANGED <<source_up, vt_pc, vt_cap, vt_status, vt_frames, vt_since_frame,
                   drVars>>
    /\ OnlyLoop

\* ---- Detector.run
\* the first open: RuntimeError when the source does not open
DR_Open ==
    /\ dr_pc = "start"
    /\ dr_cap' = Opened
    /\ dr_pc' = IF source_up THEN "active" ELSE "crashed"
    /\ UNCHANGED <<source_up, vtVars, dr_new, dr_frames>>
    /\ OnlyLoop

\* cap.read() and the frame's processing, or the way to the retry
DR_Read(ret) ==
    /\ dr_pc = "active"
    /\ ret \in ReadResults
    /\ IF ret
       THEN /\ dr_frames' = IF dr_frames < MaxFrames THEN dr_frames + 1 ELSE dr_frames
            /\ dr_pc' = "active"
       ELSE /\ dr_pc' = "backoff"
            /\ UNCHANGED dr_frames
    /\ UNCHANGED <<source_up, vtVars, dr_cap, dr_new>>
    /\ OnlyLoop

\* time.sleep(3) is over
DR_Backoff ==
    /\ dr_pc = "backoff"
    /\ dr_pc' = "reopen"
    /\ UNCHANGED <<source_up, vtVars, dr_cap, dr_new, dr_frames>>
    /\ OnlyLoop

\* the right-hand side of "cap = cv2.VideoCapture(video_source)": the new
\* capture is made while cap still names the old one
DR_Reopen ==
    /\ dr_pc = "reopen"
    /\ dr_new' = Opened
    /\ dr_pc' = "rebind"
    /\ UNCHANGED <<source_up, vtVars, dr_cap, dr_frames>>
    /\ OnlyLoop

\* the assignment: the old capture loses its last reference; then
\* "if not cap.isOpened(): ... break", and cap.release() after the loop
DR_Rebind ==
    /\ dr_pc = "rebind"
    /\ dr_new' = "none"
    /\ IF dr_new = "open"
       THEN dr_cap' = "open" /\ dr_pc' = "active"
       ELSE dr_cap' = "released" /\ dr_pc' = "source_lost"
    /\ UNCHANGED <<source_up, vtVars, dr_frames>>
    /\ OnlyLoop

\* the key "q": break, and cap.release() after the loop
DR_Quit ==
    /\ dr_pc = "active"
    /\ dr_cap' = "released"
    /\ dr_pc' = "ended"
    /\ UNCHANGED <<source_up, vtVars, dr_new, dr_frames>>
    /\ OnlyLoop

(***************************************************************************)
(* SpecDispatch: what on_detection and _send_daily_summary send, leg by    *)
(* leg, with the sending threads of the notifiers and the outcome of each  *)
(* network call.                                                           *)
(***************************************************************************)
OpIds == 1..MaxOps
Channels == {"email", "discord"}
SummaryCallers == {"timer", "force"}

\* what a network call ends with: it goes through, the webhook answers with
\* a status other than 200 and 204, or an exception is raised
Exceptions == {"SMTPAuthenticationError", "SMTPException", "OSError", "RequestException"}
EmailOutcomes == {"sent", "SMTPAuthenticationError", "SMTPException", "OSError"}
DiscordOutcomes == {"sent", "status_error", "RequestException"}
Outcomes(ch) == IF ch = "email" THEN EmailOutcomes ELSE DiscordOutcomes

\* the except clauses of EmailNotifier._send_sync: SMTPAuthenticationError,
\* SMTPException, Exception
EmailCatches_SmtpOnly(exc) == exc \in {"SMTPAuthenticationError", "SMTPException"}

EmailCatches(exc) ==
    \/ exc = "SMTPAuthenticationError"
    \/ exc = "SMTPException"
    \/ exc \in Exceptions

\* "except Exception" of DiscordNotifier._send_sync
DiscordCatches(exc) == exc \in Exceptions

\* "except Exception" of _send_no_detection_email
NoDetectionCatches_SmtpOnly(exc) == exc \in {"SMTPAuthenticationError", "SMTPException"}

NoDetectionCatches(exc) == exc \in Exceptions

Catches(ch, exc) == IF ch = "email" THEN EmailCatches(exc) ELSE DiscordCatches(exc)

\* one send: not made, its network call running, sent, or failed; whether it
\* runs on a thread of its own; whether its failure was logged; the network
\* calls made for it
NoTask == [state |-> "none", own |-> FALSE, logged |-> FALSE, tries |-> 0]
Started(own_thread) ==
    [state |-> "running", own |-> own_thread, logged |-> FALSE, tries |-> 0]

\* the network call of a send is over
Ended(task, outcome, caught) ==
    [task EXCEPT !.state = IF outcome = "sent" THEN "sent" ELSE "failed",
                 !.logged = outcome = "status_error"
                            \/ (outcome \in Exceptions /\ caught),
                 !.tries = @ + 1]

\* no call was made yet
DispatchIdle ==
    /\ dp_pc = "idle"
    /\ dp_op = 0
    /\ dp_by = [o \in OpIds |-> "none"]
    /\ dp_kind = [o \in OpIds |-> "none"]
    /\ dp_local = <<>>
    /\ dp_task = [o \in OpIds |-> [ch \in Channels |-> NoTask]]

DispatchInit ==
    /\ immediate_enabled \in BOOLEAN
    /\ daily_summary_enabled \in BOOLEAN
    /\ ChannelInit
    /\ SchedFresh
    /\ DispatchIdle

\* on_detection up to _send_immediate
DP_OnDetection ==
    /\ dp_pc = "idle"
    /\ dp_op < MaxOps
    /\ dp_op' = dp_op + 1
    /\ dp_by' = [dp_by EXCEPT ![dp_op + 1] = "on_detection"]
    /\ today_detections' =
          IF QueuesDetection(daily_summary_enabled, immediate_enabled)
          THEN Append(today_detections, dp_op + 1) ELSE today_detections
    /\ IF SendsImmediate(daily_summary_enabled, immediate_enabled)
       THEN /\ dp_kind' = [dp_kind EXCEPT ![dp_op + 1] = "immediate"]
            /\ dp_pc' = "imm_email"
       ELSE /\ dp_kind' = [dp_kind EXCEPT ![dp_op + 1] = "queued"]
            /\ dp_pc' = "idle"
    /\ UNCHANGED <<dp_local, dp_task>>
    /\ UNCHANGED <<flagVars, channelVars, lock, threadVars, historyVars>>
    /\ OnlyDispatch

\* _send_immediate, "if self.email_enabled and self.email: self.email.send"
DP_ImmediateEmail ==
    /\ dp_pc = "imm_email"
    /\ dp_task' =
          IF email_enabled /\ email # "None" /\ EmailSendStarts(email, <<dp_op>>)
          THEN [dp_task EXCEPT ![dp_op]["email"] = Started(TRUE)]
          ELSE dp_task
    /\ dp_pc' = "imm_discord"
    /\ UNCHANGED <<dp_op, dp_by, dp_kind, dp_local>>
    /\ UNCHANGED schedVars
    /\ OnlyDispatch

\* _send_immediate, "if self.discord_enabled and self.discord:
\* self.discord.send", and on_detection returns
DP_ImmediateDiscord ==
    /\ dp_pc = "imm_discord"
    /\ dp_task' =
          IF discord_enabled /\ discord # "None" /\ DiscordSendStarts(discord)
          THEN [dp_task EXCEPT ![dp_op]["discord"] = Started(TRUE)]
          ELSE dp_task
    /\ dp_pc' = "idle"
    /\ UNCHANGED <<dp_op, dp_by, dp_kind, dp_local>>
    /\ UNCHANGED schedVars
    /\ OnlyDispatch

\* _send_daily_summary, called by the timer loop or by force_send_summary:
\* the copy and the clear
DP_Summary(by) ==
    /\ dp_pc = "idle"
    /\ dp_op < MaxOps
    /\ dp_op' = dp_op + 1
    /\ dp_by' = [dp_by EXCEPT ![dp_op + 1] = by]
    /\ dp_kind' = [dp_kind EXCEPT ![dp_op + 1] =
                      IF today_detections = <<>> THEN "no_activity" ELSE "summary"]
    /\ dp_local' = today_detections
    /\ today_detections' = <<>>
    /\ dp_pc' = "sum_email"
    /\ UNCHANGED dp_task
    /\ UNCHANGED <<flagVars, channelVars, lock, threadVars, historyVars>>
    /\ OnlyDispatch

\* its email leg: email.send for a list with detections, else
\* _send_no_detection_email, which opens the SMTP connection in the thread
\* it is called in
DP_SummaryEmail ==
    /\ dp_pc = "sum_email"
    /\ IF email_enabled /\ email # "None"
       THEN IF Len(dp_local) > 0
            THEN /\ dp_task' =
                      IF EmailSendStarts(email, dp_local)
                      THEN [dp_task EXCEPT ![dp_op]["email"] = Started(TRUE)]
                      ELSE dp_task
                 /\ dp_pc' = "sum_discord"
            ELSE /\ dp_task' = [dp_task EXCEPT ![dp_op]["email"] = Started(FALSE)]
                 /\ dp_pc' = "smtp"
       ELSE /\ dp_pc' = "sum_discord"
            /\ UNCHANGED dp_task
    /\ UNCHANGED <<dp_op, dp_by, dp_kind, dp_local>>
    /\ UNCHANGED schedVars
    /\ OnlyDispatch

\* the SMTP connection of _send_no_detection_email is over: an exception
\* its except clause does not catch leaves _send_daily_summary
DP_SmtpReturns(outcome) ==
    /\ dp_pc = "smtp"
    /\ outcome \in EmailOutcomes
    /\ dp_task' = [dp_task EXCEPT ![dp_op]["email"] =
                      Ended(@, outcome, NoDetectionCatches(outcome))]
    /\ dp_pc' = IF outcome \in Exceptions /\ ~NoDetectionCatches(outcome)
                THEN "raised" ELSE "sum_discord"
    /\ UNCHANGED <<dp_op, dp_by, dp_kind, dp_local>>
    /\ UNCHANGED schedVars
    /\ OnlyDispatch

\* its Discord leg, and _send_daily_summary returns
DP_SummaryDiscord ==
    /\ dp_pc = "sum_discord"
    /\ dp_task' =
          IF discord_enabled /\ discord # "None" /\ DiscordSendStarts(discord)
          THEN [dp_task EXCEPT ![dp_op]["discord"] = Started(TRUE)]
          ELSE dp_task
    /\ dp_local' = <<>>
    /\ dp_pc' = "idle"
    /\ UNCHANGED <<dp_op, dp_by, dp_kind>>
    /\ UNCHANGED schedVars
    /\ OnlyDispatch

\* _send_sync of a notifier, in its own thread, is over
DP_SendSync(o, ch, outcome) ==
    /\ dp_task[o][ch].state = "running"
    /\ dp_task[o][ch].own
    /\ outcome \in Outcomes(ch)
    /\ dp_task' = [dp_task EXCEPT ![o][ch] = Ended(@, outcome, Catches(ch, outcome))]
    /\ UNCHANGED <<dp_pc, dp_op, dp_by, dp_kind, dp_local>>
    /\ UNCHANGED schedVars
    /\ OnlyDispatch

(***************************************************************************)
(* One scheduler and the calls made on it by hand: force_send_summary,     *)
(* send_test_notification, clear_pending, next to on_detection and the     *)
(* timer.  A call is one step; the state it was made in is kept until the  *)
(* call has returned.  The timer loop is the thread start() made last: its *)
(* pass is one step, its date memory starts empty with each start().       *)
(***************************************************************************)
ManualLastTick == TicksPerDay - 1

NoCall == [op |-> "none", running |-> FALSE, daily |-> FALSE, target |-> FALSE,
           pending |-> <<>>]

\* a call of op in the present state
CallOf(op) ==
    [op |-> op, running |-> running, daily |-> daily_summary_enabled,
     target |-> is_target_time(current_minutes(now_tick), daily_summary_time),
     pending |-> today_detections]

\* the results dictionary as send_test_notification creates it
FreshResults ==
    [email_success |-> FALSE, email_message |-> "",
     discord_success |-> FALSE, discord_message |-> ""]

NoTest == [test_email |-> FALSE, test_discord |-> FALSE,
           email_outcome |-> "none", discord_outcome |-> "none",
           results |-> FreshResults]

\* "if test_email:" of send_test_notification: the SMTP connection is made
\* with the fields of self.email, whatever its enabled flag
TestEmailResult(test_email, outcome) ==
    IF ~test_email THEN [success |-> FALSE, message |-> ""]
    ELSE IF ~email_enabled \/ email = "None"
    THEN [success |-> FALSE, message |-> "Email not configured"]
    ELSE IF outcome = "sent"
    THEN [success |-> TRUE, message |-> "Test email sent to "]
    ELSE IF outcome = "SMTPAuthenticationError"
    THEN [success |-> FALSE, message |-> "Authentication failed - check username/password"]
    ELSE IF outcome = "SMTPException"
    THEN [success |-> FALSE, message |-> "SMTP error: "]
    ELSE [success |-> FALSE, message |-> "Error: "]

\* "if test_discord:": requests.post when the channel is enabled and has a
\* webhook URL
TestDiscordResult_AnyResponse(test_discord, outcome) ==
    IF ~test_discord THEN [success |-> FALSE, message |-> ""]
    ELSE IF ~discord_enabled
    THEN [success |-> FALSE, message |-> "Discord not enabled"]
    ELSE IF discord # "url"
    THEN [success |-> FALSE, message |-> "Discord webhook URL not configured"]
    ELSE IF outcome \in {"sent", "status_error"}
    THEN [success |-> TRUE, message |-> "Test message sent to Discord"]
    ELSE [success |-> FALSE, message |-> "Error: "]

TestDiscordResult(test_discord, outcome) ==
    IF ~test_discord THEN [success |-> FALSE, message |-> ""]
    ELSE IF ~discord_enabled
    THEN [success |-> FALSE, message |-> "Discord not enabled"]
    ELSE IF discord # "url"
    THEN [success |-> FALSE, message |-> "Discord webhook URL not configured"]
    ELSE IF outcome = "sent"
    THEN [success |-> TRUE, message |-> "Test message sent to Discord"]
    ELSE IF outcome = "status_error"
    THEN [success |-> FALSE, message |-> "Discord error: "]
    ELSE [success |-> FALSE, message |-> "Error: "]

send_test_notification(test_email, test_discord, email_outcome, discord_outcome) ==
    LET e == TestEmailResult(test_email, email_outcome)
        d == TestDiscordResult(test_discord, discord_outcome)
    IN [test_email |-> test_email, test_discord |-> test_discord,
        email_outcome |-> IF test_email /\ email_enabled /\ email # "None"
                          THEN email_outcome ELSE "none",
        discord_outcome |-> IF test_discord /\ discord_enabled /\ discord = "url"
                            THEN discord_outcome ELSE "none",
        results |-> [email_success |-> e.success, email_message |-> e.message,
                     discord_success |-> d.success, discord_message |-> d.message]]

\* force_send_summary: "self._send_daily_summary()", nothing else
force_send_summary_WhenDue ==
    IF running /\ daily_summary_enabled
    THEN send_daily_summary
    ELSE UNCHANGED <<today_detections, sum_sent, reported, drains, n_calls, n_valid,
                     lock>>

force_send_summary == send_daily_summary

ManualIdle ==
    /\ man_call = NoCall
    /\ test_results = NoTest

\* a scheduler whose notifiers are configured, with any flags, not started,
\* at midnight, which is its summary time
ManualInit ==
    /\ immediate_enabled \in BOOLEAN
    /\ daily_summary_enabled \in BOOLEAN
    /\ email_enabled \in BOOLEAN
    /\ discord_enabled \in BOOLEAN
    /\ email = "enabled"
    /\ discord = "url"
    /\ SchedFresh
    /\ daily_summary_time = 0
    /\ now_tick = 0
    /\ TimerFresh
    /\ ManualIdle

\* a scheduler with any flags and channels, not started, in a minute that is
\* not near its summary time
TestInit ==
    /\ immediate_enabled \in BOOLEAN
    /\ daily_summary_enabled \in BOOLEAN
    /\ ChannelInit
    /\ SchedFresh
    /\ daily_summary_time \in {m \in MinutesOfDay : ~is_target_time(0, m)}
    /\ now_tick = 0
    /\ TimerFresh
    /\ ManualIdle

NoManualCall == man_call.op = "none"

M_Tick ==
    /\ NoManualCall
    /\ now_tick < ManualLastTick
    /\ now_tick' = now_tick + 1
    /\ UNCHANGED <<schedVars, daily_summary_time, running, last_summary_date, manVars>>
    /\ OnlyManual

\* start(): a new loop thread, unless one is running
M_Start ==
    /\ NoManualCall
    /\ ~running
    /\ running' = TRUE
    /\ last_summary_date' = [last_summary_date EXCEPT ![1] = 0]
    /\ UNCHANGED <<schedVars, daily_summary_time, now_tick, manVars>>
    /\ OnlyManual

M_Stop ==
    /\ NoManualCall
    /\ running
    /\ running' = FALSE
    /\ UNCHANGED <<schedVars, daily_summary_time, now_tick, last_summary_date, manVars>>
    /\ OnlyManual

M_SetDailySummaryEnabled(enabled) ==
    /\ NoManualCall
    /\ daily_summary_enabled # enabled
    /\ daily_summary_enabled' = enabled
    /\ UNCHANGED <<immediate_enabled, channelVars, queueVars, historyVars>>
    /\ UNCHANGED <<daily_summary_time, now_tick, running, last_summary_date, manVars>>
    /\ OnlyManual

M_OnDetection ==
    /\ NoManualCall
    /\ next_id <= MaxDetections
    /\ on_detection(next_id)
    /\ next_id' = next_id + 1
    /\ UNCHANGED <<flagVars, channelVars, reported, cleared, sum_sent, drains>>
    /\ UNCHANGED <<daily_summary_time, now_tick, running, last_summary_date, manVars>>
    /\ OnlyManual

\* a pass of the timer loop that finds the summary due
M_TimerSummary ==
    /\ NoManualCall
    /\ running
    /\ daily_summary_enabled
    /\ SummaryDue(now_tick, daily_summary_time, last_summary_date[1])
    /\ drains < MaxDrains
    /\ send_daily_summary
    /\ last_summary_date' = [last_summary_date EXCEPT ![1] = current_date(now_tick)]
    /\ UNCHANGED <<flagVars, channelVars, next_id, returned, imm_sent, cleared>>
    /\ UNCHANGED <<daily_summary_time, now_tick, running, manVars>>
    /\ OnlyManual

M_ClearPending ==
    /\ NoManualCall
    /\ today_detections # <<>>
    /\ cleared' = cleared \cup {today_detections[i] : i \in 1..Len(today_detections)}
    /\ today_detections' = <<>>
    /\ n_calls' = 0
    /\ n_valid' = TRUE
    /\ UNCHANGED <<flagVars, channelVars, next_id, returned, imm_sent, reported,
                   sum_sent, drains>>
    /\ UNCHANGED <<daily_summary_time, now_tick, running, last_summary_date, manVars>>
    /\ OnlyManual

M_ForceSendSummary ==
    /\ NoManualCall
    /\ drains < MaxDrains
    /\ man_call' = CallOf("force")
    /\ force_send_summary
    /\ UNCHANGED <<flagVars, channelVars, next_id, returned, imm_sent, cleared>>
    /\ UNCHANGED <<daily_summary_time, now_tick, running, last_summary_date,
                   test_results>>
    /\ OnlyManual

M_SendTestNotification(test_email, test_discord, email_outcome, discord_outcome) ==
    /\ NoManualCall
    /\ email_outcome \in EmailOutcomes
    /\ discord_outcome \in DiscordOutcomes
    /\ man_call' = CallOf("test")
    /\ test_results' =
          send_test_notification(test_email, test_discord, email_outcome, discord_outcome)
    /\ UNCHANGED <<schedVars, daily_summary_time, now_tick, running, last_summary_date>>
    /\ OnlyManual

\* the manual call has returned
M_Return ==
    /\ ~NoManualCall
    /\ man_call' = NoCall
    /\ test_results' = NoTest
    /\ UNCHANGED <<schedVars, daily_summary_time, now_tick, running, last_summary_date>>
    /\ OnlyManual

(***************************************************************************)
(* The main window: the scheduler it creates and starts, the detection     *)
(* thread its Start button makes, and the reload after the settings were   *)
(* saved.  The scheduler's variables are those of self.scheduler, the      *)
(* object the window holds at the moment.                                  *)
(***************************************************************************)
\* "def __init__(self, rtsp_url, barn_id)" of VideoThread
VideoThreadParams == {"rtsp_url", "barn_id"}

\* "VideoThread(rtsp_url, barn_id=selection, scheduler=self.scheduler)"
StartArguments == {"rtsp_url", "barn_id", "scheduler"}

\* the methods of VideoThread the window calls
VideoThreadMethods == {"start", "stop", "wait", "isRunning"}

\* "self.detector = Detector(barn_id=self.barn_id)": a Detector made without
\* a scheduler notifies through its legacy notifier
ThreadNotifiesThrough == IF "scheduler" \in VideoThreadParams THEN "current" ELSE "legacy"

WindowIdle ==
    /\ win_open = TRUE
    /\ win_started = FALSE
    /\ win_thread = "none"
    /\ thread_scheduler = "none"

\* __init__ of the window: create_scheduler_from_env, start()
WindowInit ==
    /\ immediate_enabled \in BOOLEAN
    /\ daily_summary_enabled \in BOOLEAN
    /\ email_enabled = TRUE
    /\ email = "enabled"
    /\ discord_enabled = TRUE
    /\ discord = "url"
    /\ SchedFresh
    /\ daily_summary_time = 0
    /\ now_tick = 0
    /\ TimerFresh
    /\ ManualIdle
    /\ WindowIdle

\* on_start_clicked: the call of VideoThread raises TypeError for an
\* argument the constructor does not take, and the handler is left before
\* self.thread is assigned
W_StartClicked(selected) ==
    /\ win_open
    /\ win_thread = "none"
    /\ IF ~selected
       THEN UNCHANGED winVars
       ELSE /\ win_started' = TRUE
            /\ IF StartArguments \subseteq VideoThreadParams
               THEN /\ win_thread' = "running"
                    /\ thread_scheduler' = ThreadNotifiesThrough
               ELSE UNCHANGED <<win_thread, thread_scheduler>>
            /\ UNCHANGED win_open
    /\ UNCHANGED <<schedVars, daily_summary_time, now_tick, running, last_summary_date>>
    /\ OnlyWindow

\* _reload_scheduler: stop() of the old scheduler, a new one from
\* create_scheduler_from_env with the flags of the saved settings, start(),
\* and update_scheduler of a running thread
W_ReloadScheduler(imm, daily) ==
    /\ win_open
    /\ immediate_enabled' = imm
    /\ daily_summary_enabled' = daily
    /\ today_detections' = <<>>
    /\ n_calls' = 0
    /\ n_valid' = TRUE
    /\ running' = TRUE
    /\ last_summary_date' = [last_summary_date EXCEPT ![1] = 0]
    /\ thread_scheduler' =
          IF win_thread = "running" /\ thread_scheduler = "current"
                /\ "update_scheduler" \notin VideoThreadMethods
          THEN "replaced" ELSE thread_scheduler
    /\ UNCHANGED <<win_open, win_started, win_thread>>
    /\ UNCHANGED <<channelVars, next_id, returned, imm_sent, reported, cleared,
                   sum_sent, drains>>
    /\ UNCHANGED <<daily_summary_time, now_tick>>
    /\ OnlyWindow

\* closeEvent: the thread, if there is one, and the scheduler are stopped
W_Close ==
    /\ win_open
    /\ win_open' = FALSE
    /\ win_thread' = "none"
    /\ thread_scheduler' = "none"
    /\ running' = FALSE
    /\ UNCHANGED win_started
    /\ UNCHANGED <<schedVars, daily_summary_time, now_tick, last_summary_date>>
    /\ OnlyWindow

(***************************************************************************)
(* The configuration document: config.yaml on disk, the module's global    *)
(* config that get_latest_config replaces, and process_frame reading it.   *)
(* A mapping is modelled by the sections it has.                           *)
(***************************************************************************)
Sections == {"detection", "notification", "storage"}

\* the file is not there, cannot be opened, is not YAML, or parses to a
\* mapping with some of the sections; the empty file parses to None
FileStates ==
    {[state |-> st, sections |-> {}] : st \in {"missing", "unreadable", "malformed"}}
        \cup {[state |-> "mapping", sections |-> secs] : secs \in SUBSET Sections}

\* the dictionary load_config returns when there is no file
DefaultConfig == Sections

OnlyConfig ==
    UNCHANGED <<filterVars, schedVars, timerVars, detVars, loopVars, dispVars, manVars,
                winVars>>

\* get_latest_config: every ConfigCheckSeconds, a file that is there and
\* newer than config_mtime replaces config by "yaml.safe_load(f) or {}";
\* when open or the parser raise, the except clause keeps config and
\* config_mtime
Reloads(file, mtime) ==
    /\ since_check > ConfigCheckSeconds
    /\ file.state # "missing"
    /\ mtime > config_mtime
    /\ file.state \notin {"unreadable", "malformed"}

get_latest_config ==
    IF Reloads(cfg_file, cfg_file_mtime) THEN cfg_file.sections ELSE config

ConfigIdle ==
    /\ cfg_file = [state |-> "missing", sections |-> {}]
    /\ cfg_file_mtime = 1
    /\ config = DefaultConfig
    /\ config_mtime = 0
    /\ since_check = ConfigCheckSeconds + 1
    /\ frame_outcome = "none"

\* the module was imported with no file or with a complete one
ConfigInit ==
    /\ cfg_file \in {[state |-> "missing", sections |-> {}],
                     [state |-> "mapping", sections |-> Sections]}
    /\ cfg_file_mtime = 1
    /\ config = DefaultConfig
    /\ config_mtime = 0
    /\ since_check = ConfigCheckSeconds + 1
    /\ frame_outcome = "none"

\* the document changes on disk
CF_FileChanges(content) ==
    /\ cfg_file_mtime <= MaxEdits
    /\ content # cfg_file
    /\ cfg_file' = content
    /\ cfg_file_mtime' = cfg_file_mtime + 1
    /\ UNCHANGED <<config, config_mtime, since_check, frame_outcome>>
    /\ OnlyConfig

\* a second passes
CF_Tick ==
    /\ since_check <= ConfigCheckSeconds
    /\ since_check' = since_check + 1
    /\ UNCHANGED <<cfg_file, cfg_file_mtime, config, config_mtime, frame_outcome>>
    /\ OnlyConfig

\* process_frame: "config = get_latest_config()", then the subscripts:
\* config["detection"] for every frame, config["storage"] and, in
\* _handle_detection, config["notification"] for a frame with a detection
CF_ProcessFrame(detected) ==
    /\ config' = get_latest_config
    /\ config_mtime' =
          IF Reloads(cfg_file, cfg_file_mtime) THEN cfg_file_mtime ELSE config_mtime
    /\ since_check' = IF since_check > ConfigCheckSeconds THEN 0 ELSE since_check
    /\ frame_outcome' =
          IF (IF detected THEN Sections ELSE {"detection"}) \subseteq config'
          THEN "returned" ELSE "KeyError"
    /\ UNCHANGED <<cfg_file, cfg_file_mtime>>
    /\ OnlyConfig

(***************************************************************************)
(* The specifications.                                                     *)
(***************************************************************************)
InitFilter ==
    FilterInit /\ SchedIdle /\ TimerIdle /\ DetectorIdle /\ LoopIdle /\ DispatchIdle
        /\ ManualIdle /\ WindowIdle /\ ConfigIdle
NextFilter == ApplyFilter
SpecFilter == InitFilter /\ [][NextFilter]_vars

InitQueue ==
    QueueInit /\ FilterIdle /\ TimerIdle /\ DetectorIdle /\ LoopIdle /\ DispatchIdle
        /\ ManualIdle /\ WindowIdle /\ ConfigIdle
NextQueue ==
    \/ \E c \in Callers : OD_Enter(c) \/ OD_Queue(c) \/ OD_Immediate(c)
    \/ \E t \in Drainers : SDS_Copy(t) \/ SDS_Clear(t) \/ SDS_Dispatch(t)
    \/ ClearPending
SpecQueue == InitQueue /\ [][NextQueue]_vars

InitTimer ==
    TimerInit /\ FilterIdle /\ DetectorIdle /\ LoopIdle /\ DispatchIdle
        /\ ManualIdle /\ WindowIdle /\ ConfigIdle
NextTimer ==
    \/ Tick
    \/ Start
    \/ Stop
    \/ StopReturn
    \/ \E b \in BOOLEAN : SetDailySummaryEnabled(b)
    \/ \E m \in MinutesOfDay : SetDailySummaryTime(m)
    \/ \E i \in LoopIds : LoopExit(i) \/ LoopEnter(i) \/ LoopIdlePass(i) \/ LoopPass(i)
SpecTimer == InitTimer /\ [][NextTimer]_vars

InitDetector ==
    /\ DetectorInit /\ DetSchedInit /\ DetFilterInit
    /\ TimerIdle /\ LoopIdle /\ DispatchIdle /\ ManualIdle /\ WindowIdle /\ ConfigIdle
NextDetector ==
    \/ DetTick
    \/ \E boxes \in DetFrames, db_ok \in BOOLEAN : ProcessFrame(boxes, db_ok)
    \/ ForceSendSummary
SpecDetector == InitDetector /\ [][NextDetector]_vars

InitLoop ==
    LoopFresh /\ FilterIdle /\ SchedIdle /\ TimerIdle /\ DetectorIdle /\ DispatchIdle
        /\ ManualIdle /\ WindowIdle /\ ConfigIdle
NextLoop ==
    \/ SourceChange
    \/ VT_Stopped
    \/ VT_Enter
    \/ VT_Connect
    \/ VT_ConnectRetry
    \/ VT_ReadWaits
    \/ \E ret \in BOOLEAN, proc \in 0..MaxStall : VT_Read(ret, proc)
    \/ VT_Release
    \/ VT_Backoff
    \/ VT_Stop
    \/ DR_Open
    \/ \E ret \in BOOLEAN : DR_Read(ret)
    \/ DR_Backoff
    \/ DR_Reopen
    \/ DR_Rebind
    \/ DR_Quit
SpecLoop == InitLoop /\ [][NextLoop]_vars

InitDispatch ==
    DispatchInit /\ FilterIdle /\ TimerIdle /\ DetectorIdle /\ LoopIdle
        /\ ManualIdle /\ WindowIdle /\ ConfigIdle
NextDispatch ==
    \/ DP_OnDetection
    \/ DP_ImmediateEmail
    \/ DP_ImmediateDiscord
    \/ \E by \in SummaryCallers : DP_Summary(by)
    \/ DP_SummaryEmail
    \/ \E outcome \in EmailOutcomes : DP_SmtpReturns(outcome)
    \/ DP_SummaryDiscord
    \/ \E o \in OpIds, ch \in Channels, outcome \in EmailOutcomes \cup DiscordOutcomes :
          DP_SendSync(o, ch, outcome)
SpecDispatch == InitDispatch /\ [][NextDispatch]_vars

InitManual ==
    ManualInit /\ FilterIdle /\ DetectorIdle /\ LoopIdle /\ DispatchIdle /\ WindowIdle /\ ConfigIdle
NextManual ==
    \/ M_Tick
    \/ M_Start
    \/ M_Stop
    \/ \E b \in BOOLEAN : M_SetDailySummaryEnabled(b)
    \/ M_OnDetection
    \/ M_TimerSummary
    \/ M_ClearPending
    \/ M_ForceSendSummary
    \/ M_Return
SpecManual == InitManual /\ [][NextManual]_vars

InitTest ==
    TestInit /\ FilterIdle /\ DetectorIdle /\ LoopIdle /\ DispatchIdle /\ WindowIdle /\ ConfigIdle
NextTest ==
    \/ M_Start
    \/ M_Stop
    \/ \E b \in BOOLEAN : M_SetDailySummaryEnabled(b)
    \/ M_OnDetection
    \/ M_ClearPending
    \/ \E te, td \in BOOLEAN, eo \in EmailOutcomes, do \in DiscordOutcomes :
          M_SendTestNotification(te, td, eo, do)
    \/ M_Return
SpecTest == InitTest /\ [][NextTest]_vars

InitWindow ==
    WindowInit /\ FilterIdle /\ DetectorIdle /\ LoopIdle /\ DispatchIdle /\ ConfigIdle
NextWindow ==
    \/ \E selected \in BOOLEAN : W_StartClicked(selected)
    \/ \E imm, daily \in BOOLEAN : W_ReloadScheduler(imm, daily)
    \/ W_Close
    \/ M_Tick
    \/ M_Start
    \/ M_Stop
    \/ \E b \in BOOLEAN : M_SetDailySummaryEnabled(b)
    \/ M_OnDetection
    \/ M_TimerSummary
    \/ M_ClearPending
SpecWindow == InitWindow /\ [][NextWindow]_vars

InitConfig ==
    /\ ConfigInit
    /\ FilterIdle /\ SchedIdle /\ TimerIdle /\ DetectorIdle /\ LoopIdle /\ DispatchIdle
    /\ ManualIdle /\ WindowIdle
NextConfig ==
    \/ \E content \in FileStates : CF_FileChanges(content)
    \/ CF_Tick
    \/ \E detected \in BOOLEAN : CF_ProcessFrame(detected)
SpecConfig == InitConfig /\ [][NextConfig]_vars

\* VideoThread.run is a running QThread: each of its steps is taken in the
\* end, and a call of cv2 it is in returns (VT_ReadWaits is the time inside
\* cap.read(), not a step of the thread)
VT_Step ==
    \/ VT_Stopped
    \/ VT_Enter
    \/ VT_Connect
    \/ VT_ConnectRetry
    \/ \E ret \in BOOLEAN, proc \in 0..MaxStall : VT_Read(ret, proc)
    \/ VT_Release
    \/ VT_Backoff
SpecLoopFair == InitLoop /\ [][NextLoop]_vars /\ WF_vars(VT_Step)

(***************************************************************************)
(* C8: process_frame reports matched exactly when some box has the target  *)
(* class and a confidence strictly above the threshold; a box at the       *)
(* threshold, or of another class, never qualifies.                        *)
(***************************************************************************)
QualifyingIdx(boxes, target, threshold) ==
    {i \in 1..Len(boxes) : boxes[i].cls = target /\ boxes[i].conf > threshold}

C8_StrictThreshold ==
    fr_result # NoResult =>
        (fr_result.detected <=>
            \E i \in 1..Len(fr_boxes) :
                /\ fr_boxes[i].cls = fr_target
                /\ fr_boxes[i].conf > fr_threshold)

\* a frame was filtered and not matched although one box of the target class
\* sits exactly at the threshold and a box of another class lies above it
C8_Witness ==
    /\ fr_result # NoResult
    /\ ~fr_result.detected
    /\ \E i \in 1..Len(fr_boxes) :
          fr_boxes[i].cls = fr_target /\ fr_boxes[i].conf = fr_threshold
    /\ \E i \in 1..Len(fr_boxes) :
          fr_boxes[i].cls # fr_target /\ fr_boxes[i].conf > fr_threshold

InSeq(d, seq) == Cardinality({i \in 1..Len(seq) : seq[i] = d})

\* the drains that have copied and cleared the queue and not yet sent
Dispatching == {t \in Drainers : drainer_pc[t] = "dispatch"}

RECURSIVE InLocals(_, _)
InLocals(d, ts) ==
    IF ts = {} THEN 0
    ELSE LET t == CHOOSE x \in ts : TRUE
         IN InSeq(d, drainer_local[t]) + InLocals(d, ts \ {t})

\* the places a queued detection can be: the queue, a summary on its way,
\* a summary sent, or dropped by clear_pending
Held(d) ==
    InSeq(d, today_detections) + InLocals(d, Dispatching) + reported[d]
        + (IF d \in cleared THEN 1 ELSE 0)

(***************************************************************************)
(* C1: when on_detection has returned, the detection was added to the      *)
(* daily queue exactly once if daily_summary_enabled and not at all        *)
(* otherwise, and each channel got exactly one immediate send if           *)
(* immediate_enabled and the channel is enabled and configured, none       *)
(* otherwise; the two flags act independently of each other.               *)
(***************************************************************************)
C1_IndependentFlags ==
    \A d \in returned :
        /\ Held(d) = IF daily_summary_enabled THEN 1 ELSE 0
        /\ imm_sent[d].email =
              IF immediate_enabled /\ email_enabled /\ email = "enabled"
              THEN 1 ELSE 0
        /\ imm_sent[d].discord =
              IF immediate_enabled /\ discord_enabled /\ discord = "url"
              THEN 1 ELSE 0

\* both flags on, both channels enabled and configured: a returned call
\* left its detection in the queue and sent on both channels
C1_Witness ==
    /\ immediate_enabled /\ daily_summary_enabled
    /\ \E d \in returned :
          /\ InSeq(d, today_detections) = 1
          /\ imm_sent[d].email = 1
          /\ imm_sent[d].discord = 1

(***************************************************************************)
(* C2: with on_detection and _send_daily_summary running in different      *)
(* threads, every detection appended to the queue is in exactly one place: *)
(* still queued, in one summary, or dropped by clear_pending; it is never  *)
(* lost between a summary's copy and its clear, and never in two summaries.*)
(***************************************************************************)
Appended(d) ==
    /\ daily_summary_enabled
    /\ d < next_id
    /\ \A c \in Callers : caller_det[c] = d => caller_pc[c] # "queue"

C2_NoneLostNoneTwice ==
    \A d \in DetIds : Appended(d) => Held(d) = 1

\* a summary has reported one detection, a second summary is between its
\* copy and its clear, and a caller waits for the lock with the next one
C2_Witness ==
    /\ \E t \in Drainers : drainer_pc[t] = "copied"
    /\ \E c \in Callers : caller_pc[c] = "queue"
    /\ \E d \in DetIds : reported[d] = 1

(***************************************************************************)
(* C5: with daily mode on, after N calls of on_detection and nothing       *)
(* emptying the queue since, get_pending_count is N; once a summary has    *)
(* run it is 0, and it stays 0 through a second summary.                   *)
(***************************************************************************)
C5_PendingCount ==
    (daily_summary_enabled /\ n_valid /\ NoCallRunning /\ LockFree) =>
        get_pending_count = n_calls

\* two calls were counted, one summary reported both by email, the other
\* summary ran on the empty queue, and the count is 0
C5_Witness ==
    /\ daily_summary_enabled /\ n_valid /\ NoCallRunning /\ LockFree
    /\ Cardinality(returned) = 2
    /\ \A d \in returned : reported[d] = 1
    /\ sum_sent.email_summary = 1
    /\ sum_sent.email_nodet = 1
    /\ drains = 2
    /\ \A t \in Drainers : drainer_pc[t] = "idle"
    /\ n_calls = 0
    /\ get_pending_count = 0

(***************************************************************************)
(* C3: the timer sends at most one summary per calendar day, whatever      *)
(* start(), stop(), the time setter and the daily toggle do that day.      *)
(***************************************************************************)
C3_OncePerDay == \A dt \in Dates : timer_sent[dt] <= 1

(***************************************************************************)
(* C4: in a run of the scheduler that was never stopped, a pass of the     *)
(* timer loop with daily mode on sends the summary exactly when the clock  *)
(* minute is within one minute of the target and the date has no summary   *)
(* yet: the first wake in the window sends, no later wake of that day and  *)
(* no wake outside the window does.                                        *)
(***************************************************************************)
TimerPass(i) ==
    /\ loop_pc[i] = "body"
    /\ daily_summary_enabled
    /\ loop_pc'[i] = "live"

C4_FirstWakeInWindow ==
    [][\A i \in LoopIds :
          (TimerPass(i) /\ ~ever_stopped) =>
              LET today == current_date(now_tick) IN
              (timer_sent'[today] = timer_sent[today] + 1) <=>
                  (/\ Abs(current_minutes(now_tick) - daily_summary_time) <= 1
                   /\ timer_sent[today] = 0)]_vars

\* the summary went out at a wake in the minute before the target, and the
\* loop has just passed again in the minute after it without sending
C4_Witness ==
    /\ ~ever_stopped /\ running /\ daily_summary_enabled
    /\ \E i \in LoopIds : loop_pc[i] = "live" /\ loop_sleep[i] = ActiveSleepTicks
    /\ current_minutes(now_tick) = daily_summary_time + 1
    /\ timer_sent[current_date(now_tick)] = 1
    /\ last_sent_minute = daily_summary_time - 1

(***************************************************************************)
(* The qualifying frames of one Detector, in the order they were handled.  *)
(***************************************************************************)
\* frame j is the first qualifying frame after frame i that passed the gate
NextAfterHandled(i, j) ==
    /\ i < j
    /\ det_log[i].outcome = "handled"
    /\ \A k \in (i + 1)..(j - 1) : det_log[k].outcome = "cooldown"

(***************************************************************************)
(* C6: after a detection at T1 that caused the evidence write, the         *)
(* database record and the notification call, a qualifying detection at T2 *)
(* with T2 - T1 < cooldown causes none of them, and one at T3 with         *)
(* T3 - T1 >= cooldown, equality included, causes them again.              *)
(***************************************************************************)
C6_Cooldown ==
    \A i, j \in 1..Len(det_log) :
        NextAfterHandled(i, j) =>
            (det_log[j].outcome = "cooldown"
                <=> det_log[j].time - det_log[i].time < cooldown)

\* T1 handled, T2 inside the window dropped, T3 exactly one cooldown after
\* T1 handled again
C6_Witness ==
    /\ Len(det_log) = 3
    /\ det_log[1].outcome = "handled"
    /\ det_log[2].outcome = "cooldown"
    /\ det_log[2].time > det_log[1].time
    /\ det_log[3].outcome = "handled"
    /\ det_log[3].time - det_log[1].time = cooldown

C10_ReleasedBeforeReopen ==
    /\ vt_pc \in {"reconnect_wait", "connecting", "connect_wait"} => vt_cap # "open"
    /\ dr_pc \in {"backoff", "reopen", "rebind"} => dr_cap # "open"

(***************************************************************************)
(* C11: a source that does not open, at the first connect or at a          *)
(* reconnect, never ends a detection loop: VideoThread.run has ended only  *)
(* after stop() cleared its flag, and Detector.run has neither raised nor  *)
(* left its loop because the source did not open.                          *)
(***************************************************************************)
C11_OpenFailureNeverEnds ==
    /\ vt_pc = "done" => ~vt_run_flag
    /\ dr_pc \notin {"crashed", "source_lost"}

(***************************************************************************)
(* C12: VideoThread.run is never in its inner loop with an open capture    *)
(* when more than WatchdogSeconds have passed since the last frame: by     *)
(* then the watchdog has taken it out of ACTIVE.                           *)
(***************************************************************************)
C12_WatchdogLeavesActive ==
    ~(vt_pc = "active" /\ vt_cap = "open" /\ vt_since_frame > WatchdogSeconds)

C14_OneLiveLoop == Cardinality({i \in LoopIds : Alive(i)}) <= 1

(***************************************************************************)
(* C15: when stop() has returned and start() was not called since, no      *)
(* thread of _scheduler_loop is alive.                                     *)
(***************************************************************************)
StopHasReturned == ever_stopped /\ ctl_pc = "idle" /\ ~running

C15_StoppedMeansExited == StopHasReturned => \A i \in LoopIds : ~Alive(i)

(***************************************************************************)
(* C16: while the scheduler is stopped, stop() having returned, no thread  *)
(* of _scheduler_loop starts a summary.                                    *)
(***************************************************************************)
C16_NoSummaryAfterStop ==
    [][StopHasReturned => timer_sent' = timer_sent]_vars

(***************************************************************************)
(* C20: a summary that fires on an empty list sends one no-activity        *)
(* message on each channel that is enabled and configured, and nothing     *)
(* else there; a summary with detections sends one summary message on each *)
(* of the same channels.                                                   *)
(***************************************************************************)
SummaryFires(t) == drainer_pc[t] = "dispatch" /\ drainer_pc'[t] = "idle"

EmailReady == email_enabled /\ email = "enabled"
DiscordReady == discord_enabled /\ discord = "url"

C20_NoActivityOnEveryChannel ==
    [][\A t \in Drainers :
          SummaryFires(t) =>
              LET empty == drainer_local[t] = <<>>
                  nodet == IF empty THEN 1 ELSE 0
                  summary == IF empty THEN 0 ELSE 1
              IN /\ EmailReady =>
                     /\ sum_sent'.email_nodet = sum_sent.email_nodet + nodet
                     /\ sum_sent'.email_summary = sum_sent.email_summary + summary
                 /\ DiscordReady =>
                     /\ sum_sent'.discord_nodet = sum_sent.discord_nodet + nodet
                     /\ sum_sent'.discord_summary = sum_sent.discord_summary + summary]_vars

\* with both channels ready, one summary has fired on the empty list and one
\* on a list with detections: each channel got one message of either kind
C20_Witness ==
    /\ EmailReady /\ DiscordReady
    /\ drains = 2
    /\ \A t \in Drainers : drainer_pc[t] = "idle"
    /\ sum_sent = [email_summary |-> 1, email_nodet |-> 1,
                   discord_summary |-> 1, discord_nodet |-> 1]

(***************************************************************************)
(* C17: a send that fails stays inside the send: no exception leaves       *)
(* on_detection or _send_daily_summary, so none reaches their callers or   *)
(* ends the timer loop; every failed send was logged; and no send makes    *)
(* more than one network call.                                             *)
(***************************************************************************)
C17_FailureStaysInside ==
    /\ dp_pc # "raised"
    /\ \A o \in OpIds, ch \in Channels :
          /\ dp_task[o][ch].state = "failed" => dp_task[o][ch].logged
          /\ dp_task[o][ch].tries <= 1

\* the timer's summary failed on both channels, the email with an error that
\* is not an SMTP error, and on_detection was called after it
C17_Witness ==
    /\ dp_op = 2 /\ dp_pc = "idle"
    /\ dp_by[1] = "timer" /\ dp_by[2] = "on_detection"
    /\ \A ch \in Channels :
          /\ dp_task[1][ch].state = "failed"
          /\ dp_task[1][ch].logged
          /\ dp_task[1][ch].tries = 1
    /\ dp_kind[1] = "no_activity"
    /\ dp_task[2]["email"].state = "failed" /\ dp_task[2]["email"].logged

(***************************************************************************)
(* C18: once a call is through both of its legs, a send of it that failed  *)
(* on one channel has not kept the other channel, when that one is enabled *)
(* and configured, from getting its send.                                  *)
(***************************************************************************)
LegsOver(o) == o < dp_op \/ (o = dp_op /\ dp_pc \in {"idle", "raised"})

C18_OtherChannelStillSent ==
    \A o \in OpIds :
        (LegsOver(o) /\ dp_kind[o] \in {"immediate", "summary", "no_activity"}) =>
            /\ (dp_task[o]["email"].state = "failed" /\ DiscordReady) =>
                   dp_task[o]["discord"].state # "none"
            /\ (dp_task[o]["discord"].state = "failed" /\ EmailReady) =>
                   dp_task[o]["email"].state # "none"

\* an immediate notification whose email failed and whose Discord message
\* went out, and a summary without detections whose Discord message failed
\* and whose email went out
C18_Witness ==
    /\ dp_kind[1] = "immediate" /\ dp_kind[2] = "no_activity"
    /\ dp_pc = "idle"
    /\ dp_task[1]["email"].state = "failed" /\ dp_task[1]["discord"].state = "sent"
    /\ dp_task[2]["discord"].state = "failed" /\ dp_task[2]["email"].state = "sent"

(***************************************************************************)
(* C19: every send runs on a thread of its own, and the thread inside      *)
(* on_detection or _send_daily_summary is never inside a network call.     *)
(***************************************************************************)
C19_OwnTask ==
    /\ dp_pc # "smtp"
    /\ \A o \in OpIds, ch \in Channels :
          dp_task[o][ch].state # "none" => dp_task[o][ch].own

(***************************************************************************)
(* C23: every qualifying detection past the cooldown gate got its          *)
(* notification, the ones whose database write raised included: there are  *)
(* as many notification calls as detections past the gate.                 *)
(***************************************************************************)
PastGate == {i \in 1..Len(det_log) : det_log[i].outcome # "cooldown"}

C23_WriteFailureStillNotifies ==
    Cardinality(PastGate) =
        IF has_scheduler THEN Cardinality(returned) ELSE legacy_sent

(***************************************************************************)
(* C27: two handled detections of one Detector wrote their evidence image  *)
(* under different names.                                                  *)
(***************************************************************************)
Handled == {i \in 1..Len(det_log) : det_log[i].outcome = "handled"}

C27_DistinctEvidenceNames ==
    \A i, j \in Handled :
        i # j => EvidenceName(det_log[i].time) # EvidenceName(det_log[j].time)

(***************************************************************************)
(* C28: the cooldown runs from the construction of the Detector: as long   *)
(* as no detection was handled, a qualifying detection is dropped exactly  *)
(* when it comes less than cooldown seconds after the construction.        *)
(***************************************************************************)
C28_CooldownFromConstruction ==
    \A i \in 1..Len(det_log) :
        (\A k \in 1..(i - 1) : det_log[k].outcome = "cooldown") =>
            (det_log[i].outcome = "cooldown" <=> det_log[i].time < cooldown)

\* a qualifying detection one second before the cooldown was over since the
\* construction was dropped, the next one, at the cooldown, was handled
C28_Witness ==
    /\ cooldown > 1
    /\ Len(det_log) = 2
    /\ det_log[1].time = cooldown - 1 /\ det_log[1].outcome = "cooldown"
    /\ det_log[2].time = cooldown /\ det_log[2].outcome = "handled"

(***************************************************************************)
(* C25: a frame read successfully while the GUI loop is active and asked   *)
(* to run leaves the loop active for the next read.                        *)
(***************************************************************************)
C25_ReadFrameStaysActive ==
    [][(vt_pc = "active" /\ vt_run_flag /\ vt_since_frame' = 0
            /\ vt_status' # "Stream Lost" /\ vt_status' # "Video freeze detected")
          => vt_pc' = "active"]_vars

(***************************************************************************)
(* C29: no SMTP send is attempted through an EmailNotifier whose own       *)
(* enabled flag is false; for the no-activity summary: with such a         *)
(* notifier no no-activity email has been sent.                            *)
(***************************************************************************)
C29_DisabledNotifierSendsNothing ==
    email = "disabled" =>
        /\ \A d \in DetIds : imm_sent[d].email = 0
        /\ sum_sent.email_summary = 0
        /\ sum_sent.email_nodet = 0

(***************************************************************************)
(* C21: force_send_summary, in whatever state it is called (running or     *)
(* stopped, daily mode on or off, at the summary time or away from it),    *)
(* leaves the queue empty, lists every pending detection in one summary    *)
(* and starts one message on each channel that is enabled and configured.  *)
(***************************************************************************)
ForceReturns == man_call.op = "none" /\ man_call'.op = "force"

C21_ForceAlwaysDrains ==
    [][ForceReturns =>
          LET pending == today_detections
              summary == IF pending = <<>> THEN 0 ELSE 1
          IN /\ today_detections' = <<>>
             /\ drains' = drains + 1
             /\ \A d \in DetIds :
                   reported'[d] = reported[d] +
                       Cardinality({i \in 1..Len(pending) : pending[i] = d})
             /\ EmailReady =>
                   /\ sum_sent'.email_summary = sum_sent.email_summary + summary
                   /\ sum_sent'.email_nodet = sum_sent.email_nodet + (1 - summary)
             /\ DiscordReady =>
                   /\ sum_sent'.discord_summary = sum_sent.discord_summary + summary
                   /\ sum_sent'.discord_nodet = sum_sent.discord_nodet + (1 - summary)]_vars

\* force_send_summary is returning from a call made on a stopped scheduler
\* with daily mode off, away from the summary time, with detections pending:
\* the queue is empty and both channels got their summary
C21_Witness ==
    /\ man_call.op = "force"
    /\ ~man_call.running /\ ~man_call.daily /\ ~man_call.target
    /\ Len(man_call.pending) = 2
    /\ today_detections = <<>>
    /\ EmailReady /\ DiscordReady
    /\ drains = 1
    /\ sum_sent = [email_summary |-> 1, email_nodet |-> 0,
                   discord_summary |-> 1, discord_nodet |-> 0]

(***************************************************************************)
(* C22: send_test_notification leaves the pending queue, the two mode      *)
(* flags and the running flag as they were; a requested channel reports    *)
(* success only when it is enabled, configured and its send went through,  *)
(* and a non-empty message when it reports failure; a channel that was not *)
(* requested reports failure and the empty message.                        *)
(***************************************************************************)
TestReturns == man_call.op = "none" /\ man_call'.op = "test"

EmailConfigured == email_enabled /\ email # "None"
DiscordConfigured == discord_enabled /\ discord = "url"

TestResultsRight ==
    LET t == test_results
        r == test_results.results
    IN /\ IF t.test_email
          THEN /\ r.email_success => (EmailConfigured /\ t.email_outcome = "sent")
               /\ ~r.email_success => r.email_message # ""
          ELSE ~r.email_success /\ r.email_message = ""
       /\ IF t.test_discord
          THEN /\ r.discord_success => (DiscordConfigured /\ t.discord_outcome = "sent")
               /\ ~r.discord_success => r.discord_message # ""
          ELSE ~r.discord_success /\ r.discord_message = ""

C22_TestTouchesNothing ==
    [][TestReturns =>
          /\ UNCHANGED <<today_detections, immediate_enabled, daily_summary_enabled,
                         running>>
          /\ TestResultsRight']_vars

\* a test of both channels is returning on a running scheduler with a
\* detection pending: the email went through, the webhook answered with an
\* error status
C22_Witness ==
    /\ man_call.op = "test"
    /\ man_call.running
    /\ today_detections # <<>> /\ today_detections = man_call.pending
    /\ test_results.test_email /\ test_results.test_discord
    /\ test_results.email_outcome = "sent" /\ test_results.results.email_success
    /\ test_results.discord_outcome = "status_error"
    /\ ~test_results.results.discord_success
    /\ test_results.results.discord_message # ""

(***************************************************************************)
(* C26: once the Start button was clicked with a camera selected, and      *)
(* until the window is closed, a detection thread runs whose Detector      *)
(* notifies through the main window's current scheduler, also after a      *)
(* reload: its detections go to on_detection of that scheduler, never to   *)
(* the legacy notifier.                                                    *)
(***************************************************************************)
C26_LoopNotifiesCurrentScheduler ==
    (win_started /\ win_open) =>
        (win_thread = "running" /\ thread_scheduler = "current")

(***************************************************************************)
(* C30: a detection leaves the daily-summary queue of the main window's    *)
(* scheduler only by being listed in a summary or by clear_pending; a      *)
(* change of mode, stop(), start() and a reload after the settings were    *)
(* saved keep it pending.                                                  *)
(***************************************************************************)
C30_PendingSurvives ==
    [][\A i \in 1..Len(today_detections) :
          LET d == today_detections[i]
          IN \/ \E j \in 1..Len(today_detections') : today_detections'[j] = d
             \/ reported'[d] = reported[d] + 1
             \/ d \in cleared']_vars

(***************************************************************************)
(* C24: whatever happens to the configuration document during a run, the   *)
(* configuration in use has the detection, notification and storage        *)
(* settings, and no process_frame fails on a missing one.                  *)
(***************************************************************************)
C24_ConfigAlwaysComplete ==
    /\ Sections \subseteq config
    /\ frame_outcome # "KeyError"

====
